---- MODULE Spec2Model ----
(***************************************************************************)
(* Checkora game manager: the ChessGame class of game/engine.py and the    *)
(* HTTP views of game/views.py that drive it through the Django session.   *)
(*                                                                         *)
(* The external C++ engine is the environment: every engine call draws     *)
(* its outcome (binary missing, timeout, process error, or some reply      *)
(* text) from a finite set.  Reply text is a sequence of whitespace        *)
(* separated tokens; a board string is a sequence of one-character         *)
(* strings.  Wall-clock time is counted in whole seconds.  The session is   *)
(* stored only when a view assigns request.session['game'] (Django saves a *)
(* session that was modified, not one that was only read).                 *)
(***************************************************************************)
EXTENDS Integers, Sequences, FiniteSets, TLC

VARIABLES
    session,    \* request.session: <<>> when it has no 'game' key, else <<dict>>
    game,       \* the ChessGame instance most recently built or used
    now,        \* time.time()
    resp,       \* what the last operation did and returned
    nreq,       \* number of operations so far
    fetches,    \* squares asked of the engine (MOVES) since the board last changed
    flagged     \* 0, or the number of the operation of this game that first
                \* left a clock counter at zero

vars == <<session, game, now, resp, nreq, fetches, flagged>>

-----------------------------------------------------------------------------
(* Python's None *)

None == "None"

-----------------------------------------------------------------------------
(* Bounds of the model *)

MaxRequests == 3

\* seconds that may pass before a request that reads the clock: none, the
\* larger part of the allowance, more than the whole allowance
Elapsed == {0, 400, 700}

\* (from, to) of the apply-move requests:
\*   e2-e4, e7-e5, e4-e5 (source empty at the start, a capture after the
\*   first two), e2-e8 (white pawn to row 0), e7-e1 (black pawn to row 7)
Moves ==
    {<<<<6, 4>>, <<4, 4>>>>, <<<<1, 4>>, <<3, 4>>>>, <<<<4, 4>>, <<3, 4>>>>,
     <<<<6, 4>>, <<0, 4>>>>, <<<<1, 4>>, <<7, 4>>>>}

\* squares of the legal-move queries
Squares == {<<6, 4>>, <<1, 4>>, <<4, 4>>}

\* promotion_piece of a request: None (absent), a valid letter (in upper
\* case), an invalid letter
PromoInputs == {None, "N", "x"}

-----------------------------------------------------------------------------
(* Python values *)

\* truth value of an optional one-token string
Truthy(x) == x # None /\ x # ""

\* str.lower / str.upper / str.isupper on the strings that occur
Lower(s) ==
    CASE s = "Q" -> "q" [] s = "R" -> "r" [] s = "B" -> "b" [] s = "N" -> "n"
      [] s = "P" -> "p" [] s = "K" -> "k" [] s = "X" -> "x"
      [] OTHER -> s

Upper(s) ==
    CASE s = "q" -> "Q" [] s = "r" -> "R" [] s = "b" -> "B" [] s = "n" -> "N"
      [] s = "p" -> "P" [] s = "k" -> "K" [] s = "x" -> "X"
      [] OTHER -> s

IsUpper(s) == s \in {"Q", "R", "B", "N", "P", "K", "X"}

\* int(token): the tokens that parse, and their values
IntTokens == {"0", "1", "2", "3", "4", "5", "6", "7"}

ParseInt(tok) ==
    CASE tok = "0" -> 0 [] tok = "1" -> 1 [] tok = "2" -> 2 [] tok = "3" -> 3
      [] tok = "4" -> 4 [] tok = "5" -> 5 [] tok = "6" -> 6 [] tok = "7" -> 7

\* str(n) for a coordinate
Digit(n) ==
    CASE n = 0 -> "0" [] n = 1 -> "1" [] n = 2 -> "2" [] n = 3 -> "3"
      [] n = 4 -> "4" [] n = 5 -> "5" [] n = 6 -> "6" [] n = 7 -> "7"

\* resp.startswith(verb) on the first token of a reply
StartsWith(tok, verb) == tok = verb

\* the second argument, whatever its sign
NoFloor(a, b) == b

\* the smaller of the two
Min(a, b) == IF a >= b THEN b ELSE a

Max(a, b) == IF a >= b THEN a ELSE b

-----------------------------------------------------------------------------
(* Board *)

FILES == <<"a", "b", "c", "d", "e", "f", "g", "h">>

EmptyRow == <<None, None, None, None, None, None, None, None>>

INITIAL_BOARD ==
    << <<"r", "n", "b", "q", "k", "b", "n", "r">>,
       <<"p", "p", "p", "p", "p", "p", "p", "p">>,
       EmptyRow, EmptyRow, EmptyRow, EmptyRow,
       <<"P", "P", "P", "P", "P", "P", "P", "P">>,
       <<"R", "N", "B", "Q", "K", "B", "N", "R">> >>

\* board[r][c] and board[r][c] = v, rows and columns counted from 0
At(b, r, c) == b[r + 1][c + 1]
Put(b, r, c, v) == [b EXCEPT ![r + 1][c + 1] = v]

serialize_board(b) ==
    [i \in 1..64 |->
        LET ch == b[((i - 1) \div 8) + 1][((i - 1) % 8) + 1]
        IN  IF ch = None THEN "." ELSE ch]

\* the 8x8 list of a string of at least 64 characters
parse_board64(s) ==
    [r \in 1..8 |->
        [c \in 1..8 |->
            LET ch == s[(r - 1) * 8 + c]
            IN  IF ch = "." THEN None ELSE ch]]

color(piece) ==
    IF piece = None THEN None
    ELSE IF IsUpper(piece) THEN "white" ELSE "black"

is_promotion(piece, to_row) ==
    IF piece = None THEN FALSE
    ELSE (piece = "P" /\ to_row = 0) \/ (piece = "p" /\ to_row = 7)

ValidChoices == {"q", "r", "b", "n"}

promote(piece, choice) ==
    LET c0 == Lower(IF Truthy(choice) THEN choice ELSE "q")
        c1 == IF c0 \notin ValidChoices THEN "q" ELSE c0
    IN  IF IsUpper(piece) THEN Upper(c1) ELSE Lower(c1)

\* a check of the destination row alone
row_only(board, fr, fc, tr) == tr = 0 \/ tr = 7

is_promotion_move(board, fr, fc, tr) ==
    LET piece == At(board, fr, fc)
    IN  IF piece = None THEN FALSE
        ELSE (piece = "P" /\ tr = 0) \/ (piece = "p" /\ tr = 7)

notation(fr, fc, tr, tc) ==
    <<FILES[fc + 1], 8 - fr, "->", FILES[tc + 1], 8 - tr>>

-----------------------------------------------------------------------------
(* The engine process: src/game/engine.py, "C++ engine communication" *)

\* What one run of the engine binary can do.  kind "stdout" carries the
\* tokens of the text it printed.
EngineFailures == {"notfound", "timeout", "oserror"}

Failure(k) == [kind |-> k, out |-> <<>>]
Stdout(toks) == [kind |-> "stdout", out |-> toks]

\* used where an operation makes no engine call
NoCall == [kind |-> "nocall", out |-> <<>>]

\* _call_engine: None (ok = FALSE) or the stripped standard output
call_engine(reply) ==
    IF reply.kind = "notfound" THEN [ok |-> FALSE, toks |-> <<>>]
    ELSE IF reply.kind \in {"timeout", "oserror"} THEN [ok |-> FALSE, toks |-> <<>>]
    ELSE [ok |-> TRUE, toks |-> reply.out]

\* the exception, if any, of reading field k of the reply: parts[k] and int()
FieldExc(parts, k) ==
    IF k > Len(parts) THEN "IndexError"
    ELSE IF parts[k] \notin IntTokens THEN "ValueError"
    ELSE "none"

ChunkExc(parts, i) ==
    IF FieldExc(parts, i) # "none" THEN FieldExc(parts, i)
    ELSE IF FieldExc(parts, i + 1) # "none" THEN FieldExc(parts, i + 1)
    ELSE IF FieldExc(parts, i + 2) # "none" THEN FieldExc(parts, i + 2)
    ELSE FieldExc(parts, i + 3)

\* the loop "for i in range(0, len(parts), 4)" from position i on
RECURSIVE ParseMoves(_, _)
ParseMoves(parts, i) ==
    IF i > Len(parts) THEN [exc |-> "none", moves |-> <<>>]
    ELSE IF ChunkExc(parts, i) # "none"
         THEN [exc |-> ChunkExc(parts, i), moves |-> <<>>]
    ELSE LET m == [row |-> ParseInt(parts[i]),
                   col |-> ParseInt(parts[i + 1]),
                   is_capture |-> ParseInt(parts[i + 2]) # 0,
                   is_promotion |-> ParseInt(parts[i + 3]) # 0]
             rest == ParseMoves(parts, i + 4)
         IN  IF rest.exc # "none" THEN rest
             ELSE [exc |-> "none", moves |-> <<m>> \o rest.moves]

get_engine_moves(board, turn, row, col, reply) ==
    LET cmd == <<"MOVES", serialize_board(board), turn, row, col>>
        r == call_engine(reply)
        p == IF r.ok /\ Len(r.toks) > 0 /\ StartsWith(r.toks[1], "MOVES")
             THEN ParseMoves(Tail(r.toks), 1)
             ELSE [exc |-> "none", moves |-> <<>>]
    IN  [exc |-> p.exc, moves |-> p.moves, cmds |-> <<cmd>>]

call_engine_promote(board, turn, fr, fc, tr, tc, choice, reply) ==
    LET cmd == <<"PROMOTE", serialize_board(board), turn, fr, fc, tr, tc, choice>>
        r == call_engine(reply)
    IN  IF r.ok /\ Len(r.toks) > 0 /\ StartsWith(r.toks[1], "PROMOTE")
        THEN IF Len(r.toks) < 2
             THEN [exc |-> "IndexError", has |-> FALSE, board |-> <<>>, cmds |-> <<cmd>>]
             ELSE [exc |-> "none", has |-> TRUE, board |-> r.toks[2], cmds |-> <<cmd>>]
        ELSE [exc |-> "none", has |-> FALSE, board |-> <<>>, cmds |-> <<cmd>>]

\* _parse_board64 reads board_str[0..63]
parse_board64_exc(s) == IF Len(s) < 64 THEN "IndexError" ELSE "none"

-----------------------------------------------------------------------------
(* ChessGame: construction and serialisation *)

EmptyCache == [k \in {} |-> <<>>]

NoCaptures == [white |-> <<>>, black |-> <<>>]

INITIAL_TIME == 600

\* a constructor that takes the rows of the board last stored instead of
\* copies of the rows of INITIAL_BOARD
keep_board(t) ==
    [board |-> IF Len(session) = 1 THEN session[1].board ELSE INITIAL_BOARD,
     current_turn |-> "white",
     move_history |-> <<>>,
     captured |-> NoCaptures,
     valid_moves_cache |-> EmptyCache,
     white_time |-> INITIAL_TIME,
     black_time |-> INITIAL_TIME,
     last_ts |-> t,
     paused |-> FALSE]

\* ChessGame() built at time t
ChessGame(t) ==
    [board |-> INITIAL_BOARD,
     current_turn |-> "white",
     move_history |-> <<>>,
     captured |-> NoCaptures,
     valid_moves_cache |-> EmptyCache,
     white_time |-> INITIAL_TIME,
     black_time |-> INITIAL_TIME,
     last_ts |-> t,
     paused |-> FALSE]

\* f"{r},{c}" and its inverse, map(int, k.split(','))
KeyStr(k) == <<Digit(k[1]), ",", Digit(k[2])>>

SplitComma(str) ==
    LET i == CHOOSE j \in 1..Len(str) : str[j] = "," /\ \A h \in 1..(j - 1) : str[h] # ","
    IN  <<SubSeq(str, 1, i - 1), SubSeq(str, i + 1, Len(str))>>

\* a decoding of the key that reads the two numbers in the other order
ParseKeySwapped(str) ==
    LET parts == SplitComma(str)
    IN  <<ParseInt(parts[2][1]), ParseInt(parts[1][1])>>

ParseKey(str) ==
    LET parts == SplitComma(str)
    IN  <<ParseInt(parts[1][1]), ParseInt(parts[2][1])>>

to_dict(g) ==
    [board |-> g.board,
     current_turn |-> g.current_turn,
     move_history |-> g.move_history,
     captured |-> g.captured,
     valid_moves_cache |->
        [s \in {KeyStr(k) : k \in DOMAIN g.valid_moves_cache} |->
            g.valid_moves_cache[CHOOSE k \in DOMAIN g.valid_moves_cache : KeyStr(k) = s]],
     white_time |-> g.white_time,
     black_time |-> g.black_time,
     last_ts |-> g.last_ts,
     paused |-> g.paused]

from_dict(data) ==
    [board |-> data.board,
     current_turn |-> data.current_turn,
     move_history |-> data.move_history,
     captured |-> data.captured,
     valid_moves_cache |->
        [k \in {ParseKey(s) : s \in DOMAIN data.valid_moves_cache} |->
            data.valid_moves_cache[CHOOSE s \in DOMAIN data.valid_moves_cache : ParseKey(s) = k]],
     white_time |-> data.white_time,
     black_time |-> data.black_time,
     last_ts |-> data.last_ts,
     paused |-> data.paused]

-----------------------------------------------------------------------------
(* ChessGame: public API.  Every operation returns the instance as it      *)
(* leaves it, its return value, the exception it raised ("none" when it    *)
(* returned) and the commands it sent to the engine.                       *)

update_clock(g, t) ==
    IF g.paused THEN [g EXCEPT !.last_ts = t]
    ELSE LET elapsed == t - g.last_ts
             g1 == IF elapsed > 0
                   THEN IF g.current_turn = "white"
                        THEN [g EXCEPT !.white_time = Max(0, g.white_time - elapsed)]
                        ELSE [g EXCEPT !.black_time = Max(0, g.black_time - elapsed)]
                   ELSE g
         IN  [g1 EXCEPT !.last_ts = t]

\* a cache that does not take the entry
no_store(cache, k, v) == cache

CachePut(cache, k, v) ==
    [x \in (DOMAIN cache) \cup {k} |-> IF x = k THEN v ELSE cache[x]]

\* the gate of get_valid_moves that lets every occupied square through
gate_empty_only(piece, turn) == piece = None

\* "if not piece or self._color(piece) != self.current_turn" of get_valid_moves
not_on_turn(piece, turn) == piece = None \/ color(piece) # turn

get_valid_moves(g, row, col, reply) ==
    LET piece == At(g.board, row, col)
        k == <<row, col>>
    IN  IF not_on_turn(piece, g.current_turn)
        THEN [game |-> g, ret |-> <<>>, exc |-> "none", cmds |-> <<>>]
        ELSE IF k \notin DOMAIN g.valid_moves_cache
        THEN LET e == get_engine_moves(g.board, g.current_turn, row, col, reply)
             IN  IF e.exc # "none"
                 THEN [game |-> g, ret |-> <<>>, exc |-> e.exc, cmds |-> e.cmds]
                 ELSE [game |-> [g EXCEPT !.valid_moves_cache = CachePut(@, k, e.moves)],
                       ret |-> e.moves, exc |-> "none", cmds |-> e.cmds]
        ELSE [game |-> g, ret |-> g.valid_moves_cache[k], exc |-> "none", cmds |-> <<>>]

validate_move(g, fr, fc, tr, tc, reply) ==
    LET r == get_valid_moves(g, fr, fc, reply)
        found == \E i \in 1..Len(r.ret) : r.ret[i].row = tr /\ r.ret[i].col = tc
    IN  [game |-> r.game, exc |-> r.exc, cmds |-> r.cmds,
         valid |-> r.exc = "none" /\ found,
         message |-> IF r.exc # "none" THEN None
                     ELSE IF found THEN "Valid move." ELSE "Illegal move."]

\* a move after which the same side is to move again
SameSide(turn) == turn

\* "self.current_turn = 'black' if self.current_turn == 'white' else 'white'"
Flip(turn) == IF turn = "white" THEN "black" ELSE "white"

\* a capture credited to the side that did not move
credit_opponent(sets, turn, captured) ==
    IF captured # None THEN [sets EXCEPT ![Flip(turn)] = Append(@, captured)] ELSE sets

\* "if captured: self.captured[self.current_turn].append(captured)"
record_capture(sets, turn, captured) ==
    IF captured # None THEN [sets EXCEPT ![turn] = Append(@, captured)] ELSE sets

\* make_move without its "self.valid_moves_cache = {}"
keep_cache(cache) == cache

\* "self.valid_moves_cache = {}" of make_move

invalidate_cache(cache) == EmptyCache

make_move(g, fr, fc, tr, tc, promotion_piece, reply, t) ==
    LET piece == At(g.board, fr, fc)
        captured == At(g.board, tr, tc)
        promoted == is_promotion(piece, tr)
        choice == Lower(IF Truthy(promotion_piece) THEN promotion_piece ELSE "q")
        e == IF promoted
             THEN call_engine_promote(g.board, g.current_turn, fr, fc, tr, tc, choice, reply)
             ELSE [exc |-> "none", has |-> FALSE, board |-> <<>>, cmds |-> <<>>]
        exc == IF e.exc # "none" THEN e.exc
               ELSE IF e.has THEN parse_board64_exc(e.board)
               ELSE "none"
        board1 == IF promoted
                  THEN IF e.has
                       THEN parse_board64(e.board)
                       ELSE Put(Put(g.board, tr, tc, promote(piece, promotion_piece)),
                                fr, fc, None)
                  ELSE Put(Put(g.board, tr, tc, piece), fr, fc, None)
        captured1 == record_capture(g.captured, g.current_turn, captured)
        landed == At(board1, tr, tc)
        note == IF promoted
                THEN notation(fr, fc, tr, tc)
                     \o <<"=", Upper(IF landed # None THEN landed ELSE "Q")>>
                ELSE notation(fr, fc, tr, tc)
        entry == [notation |-> note,
                  piece |-> piece,
                  from |-> <<fr, fc>>,
                  to |-> <<tr, tc>>,
                  captured |-> captured,
                  color |-> g.current_turn,
                  promoted_to |-> IF promoted THEN landed ELSE None]
        g2 == [g EXCEPT !.board = board1,
                        !.captured = captured1,
                        !.move_history = Append(@, entry),
                        !.valid_moves_cache = invalidate_cache(@),
                        !.current_turn = Flip(@)]
        g3 == update_clock(g2, t)
    IN  IF exc # "none"
        THEN [game |-> g, exc |-> exc, cmds |-> e.cmds,
              success |-> FALSE, message |-> <<>>, captured |-> None]
        ELSE IF g3.white_time = 0
        THEN [game |-> g3, exc |-> "none", cmds |-> e.cmds,
              success |-> FALSE, message |-> <<"White ran out of time">>, captured |-> None]
        ELSE IF g3.black_time = 0
        THEN [game |-> g3, exc |-> "none", cmds |-> e.cmds,
              success |-> FALSE, message |-> <<"Black ran out of time">>, captured |-> None]
        ELSE [game |-> [g3 EXCEPT !.last_ts = t], exc |-> "none", cmds |-> e.cmds,
              success |-> TRUE, message |-> note, captured |-> captured]

-----------------------------------------------------------------------------
(* The engine binary (game/engine/main.exe), as far as the model asks it:  *)
(* only pawns stand on the squares the requests name.                      *)

Seq1(cond, x) == IF cond THEN <<x>> ELSE <<>>

OnBoard(r, c) == r \in 0..7 /\ c \in 0..7

\* the destinations the engine lists for the pawn on (r, c)
EngineMoves(board, turn, r, c) ==
    LET piece == At(board, r, c)
        dir == IF piece = "P" THEN -1 ELSE 1
        start == IF piece = "P" THEN 6 ELSE 1
        last == IF piece = "P" THEN 0 ELSE 7
        free(rr, cc) == OnBoard(rr, cc) /\ At(board, rr, cc) = None
        foe(rr, cc) == /\ OnBoard(rr, cc)
                       /\ At(board, rr, cc) # None
                       /\ color(At(board, rr, cc)) # turn
        mv(rr, cc, cap) == [row |-> rr, col |-> cc, is_capture |-> cap,
                            is_promotion |-> rr = last]
    IN  IF piece \notin {"P", "p"} \/ color(piece) # turn THEN <<>>
        ELSE Seq1(free(r + dir, c), mv(r + dir, c, FALSE))
             \o Seq1(r = start /\ free(r + dir, c) /\ free(r + 2 * dir, c),
                     mv(r + 2 * dir, c, FALSE))
             \o Seq1(foe(r + dir, c - 1), mv(r + dir, c - 1, TRUE))
             \o Seq1(foe(r + dir, c + 1), mv(r + dir, c + 1, TRUE))

Flag(b) == IF b THEN "1" ELSE "0"

RECURSIVE MoveTokens(_)
MoveTokens(moves) ==
    IF moves = <<>> THEN <<>>
    ELSE <<Digit(Head(moves).row), Digit(Head(moves).col),
           Flag(Head(moves).is_capture), Flag(Head(moves).is_promotion)>>
         \o MoveTokens(Tail(moves))

\* the board the engine sends back for a promotion
EnginePromoted(board, fr, fc, tr, tc, choice) ==
    serialize_board(Put(Put(board, tr, tc, promote(At(board, fr, fc), choice)), fr, fc, None))

\* what a MOVES call can meet: no answer, an answer with another verb, the
\* engine's list, and answers of the wrong shape
MovesReplies(board, turn, r, c) ==
    {Failure(k) : k \in EngineFailures}
    \cup {Stdout(<<>>), Stdout(<<"ERROR">>),
          Stdout(<<"MOVES">> \o MoveTokens(EngineMoves(board, turn, r, c))),
          Stdout(<<"MOVES", "4", "4", "0">>),
          Stdout(<<"MOVES", "4", "x", "0", "0">>)}

\* the engine answers a legal-move query only when it is asked: the square
\* holds a piece of the side on turn and is not in the cache
MovesRepliesFor(g, sq) ==
    IF /\ At(g.board, sq[1], sq[2]) # None
       /\ color(At(g.board, sq[1], sq[2])) = g.current_turn
       /\ sq \notin DOMAIN g.valid_moves_cache
    THEN MovesReplies(g.board, g.current_turn, sq[1], sq[2])
    ELSE {NoCall}

PromoteReplies(board, fr, fc, tr, tc, choice) ==
    {Failure(k) : k \in EngineFailures}
    \cup {Stdout(<<>>), Stdout(<<"ERROR">>), Stdout(<<"PROMOTE">>),
          Stdout(<<"PROMOTE", SubSeq(serialize_board(board), 1, 63)>>),
          Stdout(<<"PROMOTE", EnginePromoted(board, fr, fc, tr, tc, choice)>>)}

\* how a reply to a call with the given verb is classed:
\*   "failed"     no answer, or an answer that does not start with the verb
\*   "malformed"  the verb, then tokens of the wrong shape
\*   "ok"         the verb, then what the protocol promises
ReplyClass(reply, verb) ==
    IF reply.kind = "nocall" THEN "nocall"
    ELSE IF reply.kind # "stdout" \/ Len(reply.out) = 0 THEN "failed"
    ELSE IF ~StartsWith(reply.out[1], verb) THEN "failed"
    ELSE IF verb = "MOVES"
         THEN IF ParseMoves(Tail(reply.out), 1).exc = "none" THEN "ok" ELSE "malformed"
    ELSE IF Len(reply.out) >= 2 /\ Len(reply.out[2]) >= 64 THEN "ok" ELSE "malformed"

-----------------------------------------------------------------------------
(* The views of src/game/views.py *)

HasGame(s) == Len(s) = 1

NoSquare == <<-1, -1>>

\* the record of an operation: its inputs, then what it answered; dropped
\* counts what the operation discarded (cache entries of a move, history
\* entries of a new game)
Response(op, from, to, promo, status, exc, valid, message, captured, cmds, engine, moves, flag) ==
    [op |-> op, from |-> from, to |-> to, promo |-> promo, status |-> status,
     exc |-> exc, valid |-> valid, message |-> message, captured |-> captured,
     cmds |-> cmds, engine |-> engine, moves |-> moves, flag |-> flag,
     dropped |-> 0]

Plain(op, status) ==
    Response(op, NoSquare, NoSquare, None, status, "none", FALSE, <<>>, None,
             <<>>, "nocall", <<>>, FALSE)

Init ==
    /\ session = <<>>
    /\ game = ChessGame(0)
    /\ now = 0
    /\ resp = Plain("init", 0)
    /\ nreq = 0
    /\ fetches = <<>>
    /\ flagged = 0

\* time passes, and one more request arrives
Arrive(d) ==
    /\ nreq < MaxRequests
    /\ nreq' = nreq + 1
    /\ now' = now + d

\* the instance a view works on, built at time t
Loaded(s, t) == IF HasGame(s) THEN from_dict(s[1]) ELSE ChessGame(t)

\* "self.white_time == 0" or "self.black_time == 0"
ZeroClock(g) == g.white_time = 0 \/ g.black_time = 0

\* flagged after an operation that leaves the instance g
Flagging(g) ==
    IF flagged # 0 THEN flagged ELSE IF ZeroClock(g) THEN nreq + 1 ELSE 0

Index ==
    /\ Arrive(0)
    /\ IF ~HasGame(session)
       THEN /\ game' = ChessGame(now')
            /\ session' = <<to_dict(game')>>
            /\ fetches' = <<>>
            /\ flagged' = 0
       ELSE UNCHANGED <<game, session, fetches, flagged>>
    /\ resp' = Plain("index", 200)

MakeMoveBadRequest ==
    /\ Arrive(0)
    /\ UNCHANGED <<game, session, fetches, flagged>>
    /\ resp' = [Plain("make_move", 400) EXCEPT !.message = <<"Invalid request data.">>]

\* make_move under every reply the engine may give to its promotion call
\* (promotion_piece and the engine are read for a promotion only)
MoveOutcomes(g, from, to, promo, t) ==
    IF is_promotion(At(g.board, from[1], from[2]), to[1])
    THEN {[engine |-> ReplyClass(reply, "PROMOTE"),
           r |-> make_move(g, from[1], from[2], to[1], to[2], promo, reply, t)] :
             reply \in PromoteReplies(g.board, from[1], from[2], to[1], to[2], promo)}
    ELSE {[engine |-> "nocall",
           r |-> make_move(g, from[1], from[2], to[1], to[2], promo, NoCall, t)]}

PromoInputsFor(g, from, to) ==
    IF is_promotion(At(g.board, from[1], from[2]), to[1]) THEN PromoInputs ELSE {None}

MakeMoveRequest(from, to, promo, d) ==
    /\ Arrive(d)
    /\ \E x \in MoveOutcomes(Loaded(session, now'), from, to, promo, now') :
          /\ game' = x.r.game
          /\ session' = IF x.r.exc = "none" /\ x.r.success
                        THEN <<to_dict(x.r.game)>>
                        ELSE session
          /\ fetches' = IF x.r.exc = "none" /\ x.r.success THEN <<>> ELSE fetches
          /\ flagged' = Flagging(x.r.game)
          /\ resp' = Response("make_move", from, to, promo,
                              IF x.r.exc = "none" THEN 200 ELSE 500,
                              x.r.exc, x.r.success, x.r.message, x.r.captured,
                              x.r.cmds, x.engine, <<>>, FALSE)

MakeMove ==
    \/ MakeMoveBadRequest
    \/ /\ nreq < MaxRequests
       /\ \E m \in Moves, d \in Elapsed :
             \E promo \in PromoInputsFor(Loaded(session, now), m[1], m[2]) :
                MakeMoveRequest(m[1], m[2], promo, d)

ValidMovesRequest(sq, reply) ==
    /\ Arrive(0)
    /\ UNCHANGED session
    /\ IF ~HasGame(session)
       THEN /\ UNCHANGED <<game, fetches, flagged>>
            /\ resp' = [Plain("valid_moves", 200) EXCEPT !.from = sq]
       ELSE \E r \in {get_valid_moves(from_dict(session[1]), sq[1], sq[2], reply)} :
              /\ game' = r.game
              /\ flagged' = Flagging(r.game)
              /\ fetches' = fetches \o r.cmds
              /\ resp' = Response("valid_moves", sq, NoSquare, None,
                                  IF r.exc = "none" THEN 200 ELSE 500,
                                  r.exc, FALSE, <<>>, None, r.cmds,
                                  IF r.cmds # <<>> THEN ReplyClass(reply, "MOVES")
                                  ELSE "nocall",
                                  r.ret, FALSE)

ValidMovesBadRequest ==
    /\ Arrive(0)
    /\ UNCHANGED <<game, session, fetches, flagged>>
    /\ resp' = Plain("valid_moves", 400)

ValidMoves ==
    \/ ValidMovesBadRequest
    \/ /\ nreq < MaxRequests
       /\ \E sq \in Squares :
             \E g \in {Loaded(session, now)} :
                \E reply \in MovesRepliesFor(g, sq) :
                   ValidMovesRequest(sq, reply)

NewGame ==
    \E d \in Elapsed :
        /\ Arrive(d)
        /\ game' = ChessGame(now')
        /\ session' = <<to_dict(game')>>
        /\ fetches' = <<>>
        /\ flagged' = 0
        /\ resp' = [Plain("new_game", 200) EXCEPT
                       !.dropped = IF HasGame(session)
                                   THEN Len(session[1].move_history)
                                   ELSE 0]

CheckPromotionBadRequest ==
    /\ Arrive(0)
    /\ UNCHANGED <<game, session, fetches, flagged>>
    /\ resp' = Plain("check_promotion", 200)

CheckPromotion ==
    \/ CheckPromotionBadRequest
    \/ /\ nreq < MaxRequests
       /\ \E m \in Moves :
             /\ Arrive(0)
             /\ UNCHANGED <<game, session, fetches, flagged>>
             /\ resp' = [Plain("check_promotion", 200) EXCEPT
                            !.from = m[1], !.to = m[2],
                            !.flag = IF HasGame(session)
                                     THEN is_promotion_move(session[1].board,
                                                            m[1][1], m[1][2], m[2][1])
                                     ELSE FALSE]

GetState ==
    /\ Arrive(0)
    /\ IF ~HasGame(session)
       THEN /\ game' = ChessGame(now')
            /\ session' = <<to_dict(game')>>
            /\ fetches' = <<>>
            /\ flagged' = 0
       ELSE UNCHANGED <<game, session, fetches, flagged>>
    /\ resp' = Plain("get_state", 200)

Next == Index \/ MakeMove \/ ValidMoves \/ NewGame \/ CheckPromotion \/ GetState

Spec == Init /\ [][Next]_vars

-----------------------------------------------------------------------------
(* The ChessGame API called on one live instance *)

ApiGetValidMoves ==
    /\ nreq < MaxRequests
    /\ \E sq \in Squares :
           \E reply \in MovesRepliesFor(game, sq) :
              /\ Arrive(0)
              /\ UNCHANGED session
              /\ \E r \in {get_valid_moves(game, sq[1], sq[2], reply)} :
                    /\ game' = r.game
                    /\ flagged' = Flagging(r.game)
                    /\ fetches' = fetches \o r.cmds
                    /\ resp' = Response("get_valid_moves", sq, NoSquare, None, 0,
                                        r.exc, FALSE, <<>>, None, r.cmds,
                                        IF r.cmds # <<>> THEN ReplyClass(reply, "MOVES")
                                        ELSE "nocall",
                                        r.ret, FALSE)

ApiValidateMove ==
    /\ nreq < MaxRequests
    /\ \E m \in Moves :
           \E reply \in MovesRepliesFor(game, m[1]) :
              /\ Arrive(0)
              /\ UNCHANGED session
              /\ \E r \in {validate_move(game, m[1][1], m[1][2], m[2][1], m[2][2], reply)} :
                    /\ game' = r.game
                    /\ flagged' = Flagging(r.game)
                    /\ fetches' = fetches \o r.cmds
                    /\ resp' = Response("validate_move", m[1], m[2], None, 0,
                                        r.exc, r.valid, <<>>, None, r.cmds,
                                        IF r.cmds # <<>> THEN ReplyClass(reply, "MOVES")
                                        ELSE "nocall",
                                        <<>>, FALSE)

ApiMakeMoveCall(from, to, promo, d) ==
    /\ Arrive(d)
    /\ UNCHANGED session
    /\ \E x \in MoveOutcomes(game, from, to, promo, now') :
          /\ game' = x.r.game
          /\ flagged' = Flagging(x.r.game)
          /\ fetches' = IF x.r.exc = "none" THEN <<>> ELSE fetches
          /\ resp' = [Response("api_make_move", from, to, promo, 0,
                               x.r.exc, x.r.success, x.r.message, x.r.captured,
                               x.r.cmds, x.engine, <<>>, FALSE)
                      EXCEPT !.dropped = IF x.r.exc = "none"
                                         THEN Cardinality(DOMAIN game.valid_moves_cache)
                                         ELSE 0]

ApiMakeMove ==
    /\ nreq < MaxRequests
    /\ \E m \in Moves, d \in Elapsed :
          \E promo \in PromoInputsFor(game, m[1], m[2]) :
             ApiMakeMoveCall(m[1], m[2], promo, d)

ApiUpdateClock ==
    \E d \in Elapsed :
        /\ Arrive(d)
        /\ UNCHANGED <<session, fetches>>
        /\ game' = update_clock(game, now')
        /\ flagged' = Flagging(game')
        /\ resp' = Plain("update_clock", 0)

NextAPI == ApiGetValidMoves \/ ApiValidateMove \/ ApiMakeMove \/ ApiUpdateClock

SpecAPI == Init /\ [][NextAPI]_vars

-----------------------------------------------------------------------------
(* The clock of an instance restored by from_dict from a snapshot whose    *)
(* 'paused' entry is either value (nothing in the code sets it; from_dict  *)
(* reads it, update_clock obeys it), driven by update_clock, make_move and *)
(* the constructor *)

InitClock ==
    /\ session = <<>>
    /\ now = 0
    /\ \E p \in BOOLEAN :
          game = from_dict([to_dict(ChessGame(0)) EXCEPT !.paused = p])
    /\ resp = Plain("init", 0)
    /\ nreq = 0
    /\ fetches = <<>>
    /\ flagged = 0

\* ChessGame(): the caller replaces the instance by a new one
ApiNewGame ==
    /\ Arrive(0)
    /\ UNCHANGED session
    /\ game' = ChessGame(now')
    /\ fetches' = <<>>
    /\ flagged' = 0
    /\ resp' = Plain("new", 0)

NextClock == ApiUpdateClock \/ ApiMakeMove \/ ApiNewGame

SpecClock == InitClock /\ [][NextClock]_vars

-----------------------------------------------------------------------------
(* Vocabulary of the properties *)

\* a step that is an apply-move request with well-formed input
MoveStep ==
    /\ nreq' = nreq + 1
    /\ resp'.op = "make_move"
    /\ resp'.status # 400

\* the state the request of this step found: the decoded snapshot, or a new
\* game when the session has none
Before == Loaded(session, now')

SamePosition(g, h) ==
    /\ g.board = h.board
    /\ g.current_turn = h.current_turn
    /\ g.move_history = h.move_history
    /\ g.captured = h.captured

\* the engine lists `to` among the destinations of `from`
Legal(g, from, to) ==
    \E i \in 1..Len(EngineMoves(g.board, g.current_turn, from[1], from[2])) :
        LET m == EngineMoves(g.board, g.current_turn, from[1], from[2])[i]
        IN  m.row = to[1] /\ m.col = to[2]

OwnPiece(g, sq) ==
    /\ At(g.board, sq[1], sq[2]) # None
    /\ color(At(g.board, sq[1], sq[2])) = g.current_turn

TimeOf(g, side) == IF side = "white" THEN g.white_time ELSE g.black_time

IsMessage(m, text) == Len(m) = 1 /\ m[1] = text

-----------------------------------------------------------------------------
(* Properties *)

\* C1: an apply-move request whose destination the engine does not list for
\* the source square under the current turn is rejected (valid = false) and
\* leaves board, turn, history and captured sets, returned and persisted,
\* as they were.
C1_IllegalMoveRejected ==
    [][(MoveStep /\ ~Legal(Before, resp'.from, resp'.to))
          => /\ ~resp'.valid
             /\ SamePosition(game', Before)
             /\ session' = session]_vars

\* C2: an apply-move request whose source square is empty or holds a piece
\* of the side not on turn is rejected without mutation and without any
\* engine call.
C2_ForeignSourceRejected ==
    [][(MoveStep /\ ~OwnPiece(Before, resp'.from))
          => /\ ~resp'.valid
             /\ SamePosition(game', Before)
             /\ session' = session
             /\ resp'.cmds = <<>>]_vars

\* C3: the turn reported after an apply-move request differs from the turn
\* before it exactly when the request is reported successful.
C3_TurnFlipsIffSuccess ==
    [][(MoveStep /\ resp'.status = 200)
          => ((game'.current_turn # Before.current_turn) <=> resp'.valid)]_vars

\* C4: apply-move deducts the whole seconds since the last observed
\* timestamp from the counter of the side that moved (the turn holder
\* before the flip), floored at 0, and leaves the other counter alone; when
\* white moves after its allowance has run out, white_time is 0 and the
\* outcome is "White ran out of time".
C4_MoverClockCharged ==
    [][(MoveStep /\ resp'.status = 200)
          => LET mover == Before.current_turn
                 spent == now' - Before.last_ts
             IN  /\ TimeOf(game', mover) = Max(0, TimeOf(Before, mover) - spent)
                 /\ TimeOf(game', Flip(mover)) = TimeOf(Before, Flip(mover))
                 /\ (mover = "white" /\ spent >= Before.white_time)
                       => /\ game'.white_time = 0
                          /\ IsMessage(resp'.message, "White ran out of time")]_vars

\* C5: after every apply-move request, also one that ends in a side running
\* out of time, the persisted snapshot is the in-memory state the request
\* produced and reported.
C5_SnapshotIsReportedState ==
    (resp.op = "make_move" /\ resp.status = 200) => session = <<to_dict(game)>>

\* C6: between two board mutations of a session no coordinate is fetched
\* from the engine more than once.
C6_FetchedAtMostOnce ==
    \A i, j \in 1..Len(fetches) :
        (fetches[i][4] = fetches[j][4] /\ fetches[i][5] = fetches[j][5]) => i = j

\* C7: every entry of the move cache was fetched from the engine for the
\* board and the turn that are current, a query returns nothing but the
\* entry of its square, and after a successful apply-move the cache is empty.
C7_CacheIsCurrent ==
    /\ \A k \in DOMAIN game.valid_moves_cache :
          \E i \in 1..Len(fetches) :
             fetches[i] = <<"MOVES", serialize_board(game.board), game.current_turn,
                            k[1], k[2]>>
    /\ (resp.op \in {"valid_moves", "get_valid_moves"} /\ resp.exc = "none")
          => resp.moves = IF resp.from \in DOMAIN game.valid_moves_cache
                          THEN game.valid_moves_cache[resp.from]
                          ELSE <<>>
    /\ (resp.op \in {"make_move", "api_make_move"} /\ resp.valid)
          => game.valid_moves_cache = EmptyCache

\* a successful move has just discarded a cache entry
C7_Witness_Cleared ==
    /\ resp.op = "api_make_move"
    /\ resp.valid
    /\ resp.dropped > 0
    /\ game.valid_moves_cache = EmptyCache

\* C8: every failure mode of an engine call gives the failure result and
\* raises nothing, after a single attempt.
C8_EngineFailureNeverRaises ==
    resp.engine \in {"failed", "malformed"}
       => /\ resp.exc = "none"
          /\ Len(resp.cmds) = 1
          /\ resp.op \in {"valid_moves", "get_valid_moves"} => resp.moves = <<>>

\* C9: the choice token of every PROMOTE request is one of q, r, b, n, and
\* is q when the promotion choice is absent or invalid.
C9_PromoteChoiceToken ==
    \A i \in 1..Len(resp.cmds) :
        resp.cmds[i][1] = "PROMOTE"
           => /\ resp.cmds[i][8] \in ValidChoices
              /\ Lower(IF Truthy(resp.promo) THEN resp.promo ELSE "q") \notin ValidChoices
                    => resp.cmds[i][8] = "q"

\* C10: when the engine call of a move of a pawn to the opponent's back rank
\* fails, the source square is left empty and the destination holds the
\* requested piece (a queen by default) in the pawn's colour.
C10_FallbackPromotes ==
    (/\ resp.op \in {"make_move", "api_make_move"}
     /\ Len(resp.cmds) = 1
     /\ resp.engine \in {"failed", "malformed"})
       => /\ At(game.board, resp.from[1], resp.from[2]) = None
          /\ At(game.board, resp.to[1], resp.to[2])
                = promote(IF resp.to[1] = 0 THEN "P" ELSE "p", resp.promo)

\* C11: a legal-move query for an empty square, or for a square that holds a
\* piece of the side not on turn, returns the empty list, sends nothing to
\* the engine and adds no cache entry.
C11_OffTurnQueryEmpty ==
    [][(/\ nreq' = nreq + 1
        /\ resp'.op \in {"valid_moves", "get_valid_moves"}
        /\ resp'.status # 400
        /\ ~OwnPiece(IF resp'.op = "valid_moves" THEN Before ELSE game, resp'.from))
          => /\ resp'.exc = "none"
             /\ resp'.moves = <<>>
             /\ resp'.cmds = <<>>
             /\ fetches' = fetches
             /\ session' = session
             /\ (resp'.op = "valid_moves" /\ HasGame(session))
                   => game'.valid_moves_cache = Before.valid_moves_cache
             /\ resp'.op = "get_valid_moves"
                   => game'.valid_moves_cache = game.valid_moves_cache]_vars

\* a query for the opponent's pawn, and one for an empty square, answered
\* with the empty list
C11_Witness_OpponentSquare ==
    /\ resp.op = "valid_moves"
    /\ resp.status = 200
    /\ HasGame(session)
    /\ session[1].move_history # <<>>
    /\ At(session[1].board, resp.from[1], resp.from[2]) # None
    /\ color(At(session[1].board, resp.from[1], resp.from[2])) # session[1].current_turn
    /\ resp.moves = <<>>
    /\ resp.cmds = <<>>

\* C12: decoding the encoded snapshot of any reachable state gives that
\* state back field for field: board, turn, history, captured sets, clock
\* counters, last-observed timestamp, pause flag, and a cache with the same
\* (row, col) integer pairs as keys, each mapped to the same list.
C12_RoundTrip ==
    LET back == from_dict(to_dict(game))
    IN  /\ back.board = game.board
        /\ back.current_turn = game.current_turn
        /\ back.move_history = game.move_history
        /\ back.captured = game.captured
        /\ back.white_time = game.white_time
        /\ back.black_time = game.black_time
        /\ back.last_ts = game.last_ts
        /\ back.paused = game.paused
        /\ DOMAIN back.valid_moves_cache = DOMAIN game.valid_moves_cache
        /\ DOMAIN back.valid_moves_cache \subseteq (0..7) \X (0..7)
        /\ \A k \in DOMAIN game.valid_moves_cache :
              back.valid_moves_cache[k] = game.valid_moves_cache[k]
        /\ back = game

\* a state with a history, a capture and a cached non-empty move list
C12_Witness_FullState ==
    /\ game.move_history # <<>>
    /\ game.captured.white # <<>>
    /\ \E k \in DOMAIN game.valid_moves_cache : game.valid_moves_cache[k] # <<>>
    /\ from_dict(to_dict(game)) = game

\* C13: the two clock counters are non-negative integers in every state and
\* no operation but the construction of a new game raises either; an
\* update of the clock of a paused game sets the last-observed timestamp
\* and nothing else, however often it is repeated.
C13_ClockMonotone ==
    [][/\ game'.white_time \in Nat
       /\ game'.black_time \in Nat
       /\ resp'.op # "new"
             => /\ game'.white_time <= game.white_time
                /\ game'.black_time <= game.black_time
       /\ (game.paused /\ resp'.op = "update_clock")
             => game' = [game EXCEPT !.last_ts = now']]_vars

\* a second or third update of a paused clock, long after the allowance
\* would have run out, with both counters still full
C13_Witness_PausedTicks ==
    /\ game.paused
    /\ resp.op = "update_clock"
    /\ nreq >= 2
    /\ game.move_history = <<>>
    /\ now >= 1100
    /\ game.last_ts = now
    /\ game.white_time = INITIAL_TIME
    /\ game.black_time = INITIAL_TIME

\* C14: once an operation of a game has left a clock counter at zero, every
\* later apply-move request of that game is answered valid = false, whatever
\* requests come in between, until a new game is started.
C14_FlaggedGameRejects ==
    [][(/\ flagged # 0
        /\ nreq' = nreq + 1
        /\ resp'.op = "make_move")
          => /\ ~resp'.valid
             /\ session' = session]_vars

\* a move attempted after the game was flagged, answered valid = false
C14_Witness_LaterAttempt ==
    /\ flagged # 0
    /\ nreq > flagged
    /\ resp.op = "make_move"
    /\ resp.status = 200
    /\ ~resp.valid

\* C15: from any state, new-game leaves exactly the initial state: the
\* standard starting board whatever was played before, white to move, no
\* history, no captured pieces, an empty cache, 600 seconds on both clocks,
\* not paused; and that state is the one persisted.
C15_NewGameIsInitial ==
    [][(nreq' = nreq + 1 /\ resp'.op = "new_game")
          => /\ game'.board = INITIAL_BOARD
             /\ game'.current_turn = "white"
             /\ game'.move_history = <<>>
             /\ game'.captured = [white |-> <<>>, black |-> <<>>]
             /\ DOMAIN game'.valid_moves_cache = {}
             /\ game'.white_time = 600
             /\ game'.black_time = 600
             /\ game'.last_ts = now'
             /\ game'.paused = FALSE
             /\ session' = <<to_dict(game')>>
             /\ from_dict(session'[1]) = game'
             /\ resp'.status = 200]_vars

\* a new game started over a game in which moves had been made
C15_Witness_AfterMoves ==
    /\ resp.op = "new_game"
    /\ resp.dropped > 0
    /\ HasGame(session)
    /\ session[1].board = INITIAL_BOARD
    /\ session[1].move_history = <<>>

\* the instance an apply-move or query step found
Found == IF resp'.op \in {"make_move", "valid_moves"} THEN Before ELSE game

\* C16: an apply-move whose source holds a piece of the side on turn and
\* whose destination the engine lists for that square, made while neither
\* clock is exhausted (the opponent's counter is above zero and the mover
\* has not used up its own), succeeds: the piece stands on the destination,
\* the source is empty, the turn has flipped, the history is one entry
\* longer and the cache is empty.
C16_LegalMoveSucceeds ==
    [][(/\ nreq' = nreq + 1
        /\ resp'.op \in {"make_move", "api_make_move"}
        /\ resp'.status # 400
        /\ OwnPiece(Found, resp'.from)
        /\ Legal(Found, resp'.from, resp'.to)
        /\ Found.white_time > 0
        /\ Found.black_time > 0
        /\ TimeOf(Found, Found.current_turn) > now' - Found.last_ts)
          => /\ resp'.valid
             /\ At(game'.board, resp'.to[1], resp'.to[2])
                   = At(Found.board, resp'.from[1], resp'.from[2])
             /\ At(game'.board, resp'.from[1], resp'.from[2]) = None
             /\ game'.current_turn = Flip(Found.current_turn)
             /\ Len(game'.move_history) = Len(Found.move_history) + 1
             /\ game'.valid_moves_cache = EmptyCache]_vars

\* C17: the two queries change no game state.  A legal-move query leaves
\* the persisted snapshot as it was and the instance it worked on equal to
\* the decoded one in board, turn, history, captured sets, both counters,
\* timestamp and pause flag; its cache differs at most by an entry for the
\* queried square.  An is-promotion query sends nothing to the engine,
\* changes nothing, and answers true exactly when the source holds a white
\* pawn and the destination row is 0, or a black pawn and the row is 7.
C17_QueriesAreReadOnly ==
    [][LET found == Found IN
       /\ (nreq' = nreq + 1 /\ resp'.op \in {"valid_moves", "get_valid_moves"})
             => /\ session' = session
                /\ (resp'.op = "valid_moves" /\ (~HasGame(session) \/ resp'.status = 400))
                      => game' = game
                /\ (resp'.op = "get_valid_moves" \/ (HasGame(session) /\ resp'.status # 400))
                      => /\ [game' EXCEPT !.valid_moves_cache = EmptyCache]
                               = [found EXCEPT !.valid_moves_cache = EmptyCache]
                         /\ DOMAIN found.valid_moves_cache
                               \subseteq DOMAIN game'.valid_moves_cache
                         /\ DOMAIN game'.valid_moves_cache
                               \subseteq DOMAIN found.valid_moves_cache \cup {resp'.from}
                         /\ \A k \in DOMAIN found.valid_moves_cache :
                               game'.valid_moves_cache[k] = found.valid_moves_cache[k]
       /\ (nreq' = nreq + 1 /\ resp'.op = "check_promotion")
             => /\ session' = session
                /\ game' = game
                /\ fetches' = fetches
                /\ resp'.cmds = <<>>
                /\ resp'.flag
                      = /\ HasGame(session)
                        /\ resp'.from # NoSquare
                        /\ LET piece == At(session[1].board, resp'.from[1], resp'.from[2])
                           IN  \/ piece = "P" /\ resp'.to[1] = 0
                               \/ piece = "p" /\ resp'.to[1] = 7]_vars

\* an is-promotion query answered true on a game in which moves were made
C17_Witness_PromotionQuery ==
    /\ resp.op = "check_promotion"
    /\ resp.flag
    /\ HasGame(session)
    /\ session[1].move_history # <<>>
    /\ resp.cmds = <<>>

\* the history entry of the apply-move of this step
EntryRecords(e) ==
    LET piece == At(Found.board, resp'.from[1], resp'.from[2])
    IN  /\ e.piece = piece
        /\ e.from = resp'.from
        /\ e.to = resp'.to
        /\ e.captured = At(Found.board, resp'.to[1], resp'.to[2])
        /\ e.color = Found.current_turn
        /\ e.promoted_to = IF is_promotion(piece, resp'.to[1])
                           THEN At(game'.board, resp'.to[1], resp'.to[2])
                           ELSE None

\* h2 is h1 with one entry appended, which records the move of this step
AppendsEntry(h1, h2) ==
    /\ Len(h2) = Len(h1) + 1
    /\ SubSeq(h2, 1, Len(h1)) = h1
    /\ EntryRecords(h2[Len(h2)])

\* C18: the move history only grows, and only by successful moves: a
\* successful apply-move appends exactly one entry (moved piece, source,
\* destination, captured symbol or none, the mover's colour, promoted-to
\* symbol or none) and leaves the earlier entries as they were; no other
\* operation short of new-game, an unsuccessful apply-move included,
\* changes the history, in the instance or in the persisted snapshot.
C18_HistoryAppendOnly ==
    [][/\ (/\ nreq' = nreq + 1
           /\ resp'.op \in {"make_move", "api_make_move"}
           /\ resp'.status # 400)
             => IF resp'.valid
                THEN AppendsEntry(Found.move_history, game'.move_history)
                ELSE game'.move_history = Found.move_history
       /\ (/\ nreq' = nreq + 1
           /\ \/ resp'.op \in {"get_valid_moves", "validate_move", "update_clock"}
              \/ resp'.op = "valid_moves" /\ resp'.status # 400 /\ HasGame(session))
             => game'.move_history = Found.move_history
       /\ (HasGame(session) /\ resp'.op # "new_game")
             => /\ HasGame(session')
                /\ IF nreq' = nreq + 1 /\ resp'.op = "make_move" /\ resp'.valid
                   THEN AppendsEntry(session[1].move_history, session'[1].move_history)
                   ELSE session'[1].move_history = session[1].move_history]_vars

\* s1 is an initial part of s2
IsPrefix(s1, s2) == Len(s1) <= Len(s2) /\ SubSeq(s2, 1, Len(s1)) = s1

\* C19: a successful apply-move onto an occupied square returns the symbol
\* that stood there as captured and appends it to the end of the mover's
\* captured sequence, leaving the other side's sequence alone; onto an empty
\* square it returns none and leaves both sequences alone.  The persisted
\* sequences, and those of the instance an operation works on, only ever
\* grow at the end, until a new game.
C19_CapturesAppended ==
    [][LET found == Found IN
       /\ (/\ nreq' = nreq + 1
           /\ resp'.op \in {"make_move", "api_make_move"}
           /\ resp'.valid)
             => LET mover == found.current_turn
                    stood == At(found.board, resp'.to[1], resp'.to[2])
                IN  /\ resp'.captured = stood
                    /\ game'.captured[mover]
                          = IF stood # None
                            THEN Append(found.captured[mover], stood)
                            ELSE found.captured[mover]
                    /\ game'.captured[Flip(mover)] = found.captured[Flip(mover)]
                    /\ resp'.op = "make_move" => session'[1].captured = game'.captured
       /\ (/\ nreq' = nreq + 1
           /\ \/ resp'.op \in {"api_make_move", "get_valid_moves", "validate_move",
                                "update_clock"}
              \/ resp'.op = "make_move" /\ resp'.status # 400
              \/ resp'.op = "valid_moves" /\ resp'.status # 400 /\ HasGame(session))
             => /\ IsPrefix(found.captured.white, game'.captured.white)
                /\ IsPrefix(found.captured.black, game'.captured.black)
       /\ (HasGame(session) /\ resp'.op # "new_game")
             => /\ HasGame(session')
                /\ IsPrefix(session[1].captured.white, session'[1].captured.white)
                /\ IsPrefix(session[1].captured.black, session'[1].captured.black)]_vars

\* a second capture by the same side, appended behind the first
C19_Witness_SecondCapture ==
    /\ resp.op = "make_move"
    /\ resp.valid
    /\ resp.captured # None
    /\ HasGame(session)
    /\ LET mine == session[1].captured[Flip(session[1].current_turn)]
       IN  /\ Len(mine) = 2
           /\ mine[2] = resp.captured

\* the list holds a move to the square
Lists(moves, to) == \E i \in 1..Len(moves) : moves[i].row = to[1] /\ moves[i].col = to[2]

\* C20: an engine failure during a legal-move query is stored like a
\* result: the cache holds the empty list for the square; while the entry
\* is there a query or a validation for that square is answered from it
\* without a call to the engine (so a listed move is judged illegal), and
\* the next apply-move clears it.
C20_FailureMemoized ==
    [][/\ (/\ nreq' = nreq + 1
           /\ resp'.op \in {"get_valid_moves", "validate_move"}
           /\ resp'.engine = "failed")
             => /\ resp'.exc = "none"
                /\ Len(resp'.cmds) = 1
                /\ resp'.from \in DOMAIN game'.valid_moves_cache
                /\ game'.valid_moves_cache[resp'.from] = <<>>
                /\ resp'.moves = <<>>
                /\ ~resp'.valid
       /\ (/\ nreq' = nreq + 1
           /\ resp'.op \in {"get_valid_moves", "validate_move"}
           /\ resp'.from \in DOMAIN game.valid_moves_cache)
             => /\ resp'.cmds = <<>>
                /\ resp'.engine = "nocall"
                /\ game' = game
                /\ resp'.op = "get_valid_moves"
                      => resp'.moves = game.valid_moves_cache[resp'.from]
                /\ resp'.op = "validate_move"
                      => (resp'.valid <=> Lists(game.valid_moves_cache[resp'.from], resp'.to))
       /\ (/\ nreq' = nreq + 1
           /\ resp'.op = "api_make_move"
           /\ resp'.exc = "none")
             => game'.valid_moves_cache = EmptyCache]_vars

\* a move the engine would list, judged illegal from the empty list that a
\* failed engine call left in the cache
C20_Witness_JudgedIllegal ==
    /\ resp.op = "validate_move"
    /\ ~resp.valid
    /\ resp.cmds = <<>>
    /\ resp.from \in DOMAIN game.valid_moves_cache
    /\ game.valid_moves_cache[resp.from] = <<>>
    /\ Legal(game, resp.from, resp.to)

\* the turn of g agrees with its history
TurnMatchesHistory(g) ==
    LET n == Len(g.move_history)
    IN  /\ g.current_turn \in {"white", "black"}
        /\ g.current_turn = "white" <=> n % 2 = 0
        /\ n > 0 => /\ g.move_history[n].color \in {"white", "black"}
                    /\ g.move_history[n].color # g.current_turn

\* C21: in every reachable state the turn and the history agree, in the
\* instance in memory and in the persisted snapshot: white is to move
\* exactly when the move history has even length, and the colour recorded
\* in the last history entry, when there is one, is the opposite of the
\* current turn.
C21_TurnMatchesHistory ==
    /\ TurnMatchesHistory(game)
    /\ \A i \in 1..Len(session) : TurnMatchesHistory(from_dict(session[i]))

\* two moves are stored (white to move again) and a third, rejected for
\* time, stays in the instance only, where black is to move
C21_Witness_MemoryAhead ==
    /\ HasGame(session)
    /\ Len(session[1].move_history) = 2
    /\ session[1].current_turn = "white"
    /\ resp.op = "make_move"
    /\ ~resp.valid
    /\ Len(game.move_history) = 3
    /\ game.current_turn = "black"

====
